---- MODULE Spec2Model ----
(***************************************************************************)
(* A model of the video recommender: the feature step that builds the ID   *)
(* maps and the ratings table (features/build_features.py), the training   *)
(* script that fits and saves the ALS model (vrmodels/train_model.py), the *)
(* serving module that loads the artifacts and answers recommend           *)
(* (vrmodels/recommend.py) and the HTTP handler around it (serving/app.py).*)
(*                                                                         *)
(* User and video keys are integers standing for the strings "u001",       *)
(* "v001", ...; their numeric order stands for the lexicographic order of  *)
(* the strings.  Factor values and scores are small integers standing for  *)
(* the float32 values of the library.                                      *)
(***************************************************************************)
EXTENDS Integers, Sequences, FiniteSets, TLC

\* ---------------------------------------------------------------- bounds
MaxUsers == 2
MaxVideos == 2
MaxLog == 2
MaxFeatureLog == 3
MaxValue == 1
MaxSeed == 1
MaxFactor == 1
MaxN == 1

\* ------------------------------------------------------ program constants
\* k: int = 5 (app.py) and N=5 (recommend.py): the default list length.
DefaultK == 5
\* The score the library gives a filtered item: -FLT_MAX, printed as
\* -3.4028235e+38 in recommend.py; any number below every real score.
NegFltMax == 0 - 1000

UserKeys == 1..MaxUsers
VideoKeys == 1..MaxVideos
\* A key that no interaction log mentions (a new, unseen user).
UnseenUser == MaxUsers + 1

\* ---------------------------------------------------------------- helpers
Range(s) == {s[i] : i \in 1..Len(s)}

Min2(a, b) == IF a < b THEN a ELSE b

\* Lexicographic order on <<x, y>> pairs.
PairLess(p, q) == p[1] < q[1] \/ (p[1] = q[1] /\ p[2] < q[2])

MinPair(S) == CHOOSE p \in S : \A q \in S : q = p \/ PairLess(p, q)

MaxPair(S) == CHOOSE p \in S : \A q \in S : q = p \/ PairLess(q, p)

RECURSIVE AscendingPairs(_)
AscendingPairs(S) ==
    IF S = {} THEN <<>>
    ELSE LET m == MinPair(S) IN <<m>> \o AscendingPairs(S \ {m})

RECURSIVE DescendingPairs(_)
DescendingPairs(S) ==
    IF S = {} THEN <<>>
    ELSE LET m == MaxPair(S) IN <<m>> \o DescendingPairs(S \ {m})

RECURSIVE SumSeq(_)
SumSeq(s) == IF s = <<>> THEN 0 ELSE Head(s) + SumSeq(Tail(s))

\* ------------------------------------------- features/build_features.py
\* The rows of data/interactions.csv.
InteractionRows ==
    [userId : UserKeys, videoId : VideoKeys, interactionValue : 1..MaxValue]

RECURSIVE SeqsUpTo(_, _)
SeqsUpTo(S, n) ==
    IF n = 0 THEN {<<>>}
    ELSE LET shorter == SeqsUpTo(S, n - 1)
         IN shorter \cup {Append(s, x) : s \in {t \in shorter : Len(t) = n - 1}, x \in S}

\* The six interactions of the example that the comments of the scripts
\* trace (u001..u005, v001..v005).
ScenarioLog ==
    << [userId |-> 1, videoId |-> 1, interactionValue |-> 3],
       [userId |-> 1, videoId |-> 2, interactionValue |-> 1],
       [userId |-> 2, videoId |-> 3, interactionValue |-> 4],
       [userId |-> 3, videoId |-> 4, interactionValue |-> 1],
       [userId |-> 4, videoId |-> 5, interactionValue |-> 3],
       [userId |-> 5, videoId |-> 1, interactionValue |-> 1] >>

InteractionLogs ==
    {log \in SeqsUpTo(InteractionRows, MaxLog) : log # <<>>} \cup {ScenarioLog}

\* The longer logs the feature step alone is run on.
FeatureLogs ==
    {log \in SeqsUpTo(InteractionRows, MaxFeatureLog) : log # <<>>} \cup {ScenarioLog}

\* The summed interactionValue of one (userId, videoId) group.
RECURSIVE GroupSum(_, _, _)
GroupSum(log, u, v) ==
    IF log = <<>> THEN 0
    ELSE (IF Head(log).userId = u /\ Head(log).videoId = v
          THEN Head(log).interactionValue ELSE 0) + GroupSum(Tail(log), u, v)

\* groupby(["userId", "videoId"], as_index=False).agg(sum).rename(...):
\* one row per distinct pair, the groups in sorted key order (pandas'
\* groupby sorts the group keys unless sort=False is passed).
GroupBy(log) ==
    LET pairs == {<<log[i].userId, log[i].videoId>> : i \in 1..Len(log)}
        keys == AscendingPairs(pairs)
    IN [i \in 1..Len(keys) |->
           [userId |-> keys[i][1], videoId |-> keys[i][2],
            rating |-> GroupSum(log, keys[i][1], keys[i][2])]]

\* Series.unique(): the distinct values in order of first appearance.
RECURSIVE Unique(_)
Unique(col) ==
    IF col = <<>> THEN <<>>
    ELSE LET front == Unique(SubSeq(col, 1, Len(col) - 1))
             last == col[Len(col)]
         IN IF last \in Range(front) THEN front ELSE Append(front, last)

\* A slip in the comprehension: enumerate(values, 1) numbers from one.
EnumerateFromOne(values) ==
    [k \in Range(values) |->
        CHOOSE i \in 1..Len(values) :
            values[i] = k /\ \A j \in (i + 1)..Len(values) : values[j] # k]

\* {u: i for i, u in enumerate(values)}: a later pair overwrites an earlier
\* one with the same key.
EnumerateMap(values) ==
    [k \in Range(values) |->
        (CHOOSE i \in 1..Len(values) :
            values[i] = k /\ \A j \in (i + 1)..Len(values) : values[j] # k) - 1]

UserColumn(rows) == [i \in 1..Len(rows) |-> rows[i].userId]

VideoColumn(rows) == [i \in 1..Len(rows) |-> rows[i].videoId]

BuildUserMap(rows) == EnumerateMap(Unique(UserColumn(rows)))

BuildVideoMap(rows) == EnumerateMap(Unique(VideoColumn(rows)))

\* ratings["user_idx"] = ratings["userId"].map(user_map), same for videos.
AddIndexColumns(rows, umap, vmap) ==
    [i \in 1..Len(rows) |->
        [userId |-> rows[i].userId, videoId |-> rows[i].videoId,
         rating |-> rows[i].rating,
         user_idx |-> umap[rows[i].userId], video_idx |-> vmap[rows[i].videoId]]]

\* What build_features.py leaves in data/mappings.pkl and data/ratings.csv.
FeatureMappings(log) ==
    [user_map |-> BuildUserMap(GroupBy(log)), video_map |-> BuildVideoMap(GroupBy(log))]

FeatureRatings(log) ==
    AddIndexColumns(GroupBy(log), BuildUserMap(GroupBy(log)), BuildVideoMap(GroupBy(log)))

\* ------------------------------------------------ vrmodels/train_model.py
\* coo_matrix((data, (row, col)), shape=(n_rows, n_cols)) as a dense table,
\* rows and columns numbered from 0; entries at one coordinate are summed
\* when the matrix is converted to CSR.
RECURSIVE CellSum(_, _, _)
CellSum(rows, r, c) ==
    IF rows = <<>> THEN 0
    ELSE (IF Head(rows).user_idx = r /\ Head(rows).video_idx = c
          THEN Head(rows).rating ELSE 0) + CellSum(Tail(rows), r, c)

CooMatrix(rows, n_rows, n_cols) ==
    [r \in 0..(n_rows - 1) |-> [c \in 0..(n_cols - 1) |-> CellSum(rows, r, c)]]

NumRows(m) == Cardinality(DOMAIN m)

NumCols(m) == IF DOMAIN m = {} THEN 0 ELSE Cardinality(DOMAIN m[0])

\* matrix.T
Transpose(m) ==
    [c \in 0..(NumCols(m) - 1) |-> [r \in 0..(NumRows(m) - 1) |-> m[r][c]]]

\* Series.nunique()
NUnique(col) == Cardinality(Range(col))

UserIdxColumn(rows) == [i \in 1..Len(rows) |-> rows[i].user_idx]

VideoIdxColumn(rows) == [i \in 1..Len(rows) |-> rows[i].video_idx]

\* matrix = coo_matrix(..., shape=(num_users, num_videos)) of train_model.py.
TrainMatrix(rows) ==
    CooMatrix(rows, NUnique(UserIdxColumn(rows)), NUnique(VideoIdxColumn(rows)))

RowTotal(m, r) == SumSeq([i \in 1..NumCols(m) |-> m[r][i - 1]])

\* One factor row of the fitted model.  The library draws the initial
\* factors from its random state and refines them against the data; here a
\* factor row is one integer, a function of the random state's seed, the
\* row's index and the row's data.
FactorRow(seed, m, r) == (seed + r + RowTotal(m, r)) % (MaxFactor + 1)

\* AlternatingLeastSquares(...).fit(user_items): user_factors gets one row
\* per row of the matrix it is given, item_factors one row per column.
Fit(user_items, seed) ==
    [user_factors |-> [r \in 0..(NumRows(user_items) - 1) |->
                          FactorRow(seed, user_items, r)],
     item_factors |-> [c \in 0..(NumCols(user_items) - 1) |->
                          FactorRow(seed + 1, Transpose(user_items), c)]]

\* model.fit(matrix.T): the matrix handed to fit is the transpose.
TrainFit(rows, seed) == Fit(Transpose(TrainMatrix(rows)), seed)

\* AlternatingLeastSquares(factors=20, regularization=0.1, iterations=20):
\* no random_state is passed, so the library seeds a fresh random state from
\* the operating system on every run.
RandomStates == 0..MaxSeed

\* The path train_model.py saves to and the path recommend.py loads from,
\* both below the project root.
TrainerModelPath == "models/als_model.pkl"

LoaderModelPath == "vrmodels/als_model.pkl"

\* The byte stream pickle.dump(model, f) writes, in the two pieces the model
\* is made of; a file holding fewer is one a reader cannot unpickle.
Pickled(model) == <<model.user_factors, model.item_factors>>

Complete(file) == file.exists /\ Len(file.bytes) = 2

Unpickled(file) == [user_factors |-> file.bytes[1], item_factors |-> file.bytes[2]]

NoFile == [exists |-> FALSE, bytes |-> <<>>]

NoModel == [user_factors |-> <<>>, item_factors |-> <<>>]

\* --------------------------------------------------- vrmodels/recommend.py
\* reverse_video_map = {v: k for k, v in video_map.items()}; items() runs in
\* insertion order, which is index order, and a later key overwrites an
\* earlier one with the same index.
ReverseMap(video_map) ==
    [i \in {video_map[k] : k \in DOMAIN video_map} |->
        CHOOSE k \in DOMAIN video_map :
            video_map[k] = i /\ \A k2 \in DOMAIN video_map : video_map[k2] = i => k2 <= k]

\* The module-level state recommend.py builds when it is imported.
LoadedArtifacts(model_file, mappings, rows) ==
    LET num_users == Cardinality(DOMAIN mappings.user_map)
        num_videos == Cardinality(DOMAIN mappings.video_map)
    IN [model |-> Unpickled(model_file),
        user_map |-> mappings.user_map,
        video_map |-> mappings.video_map,
        reverse_video_map |-> ReverseMap(mappings.video_map),
        user_item_matrix |-> CooMatrix(rows, num_users, num_videos)]

\* The stored column indices of one CSR row.
LikedItems(user_items) == {c \in DOMAIN user_items : user_items[c] > 0}

\* The library's score table for one user: the dot product of the user's
\* factor row with every item factor row, and -FLT_MAX at the indices
\* filter_already_liked_items names.
FilteredScores(model, userid, liked) ==
    [i \in DOMAIN model.item_factors |->
        IF i \in liked THEN NegFltMax
        ELSE model.user_factors[userid] * model.item_factors[i]]

\* The library's top-k selection over the score table: a heap of at most k
\* (score, index) pairs ordered by std::greater, filled in index order; a
\* later score enters only if it is greater than the least score kept.
RECURSIVE SelectHeap(_, _, _, _)
SelectHeap(scores, k, col, heap) ==
    IF col \notin DOMAIN scores THEN heap
    ELSE LET entry == <<scores[col], col>>
             kept == IF Cardinality(heap) < k THEN heap \cup {entry}
                     ELSE IF scores[col] > MinPair(heap)[1]
                          THEN (heap \ {MinPair(heap)}) \cup {entry}
                          ELSE heap
         IN SelectHeap(scores, k, col + 1, kept)

\* sort_heap under std::greater: descending by (score, index).
SortHeap(heap) == DescendingPairs(heap)

TopK(scores, k) ==
    IF k <= 0 THEN <<>> ELSE SortHeap(SelectHeap(scores, k, 0, {}))

NoResult == [error |-> "none", where |-> "none", ids |-> <<>>, scores |-> <<>>, results |-> <<>>]

\* model.recommend(userid, user_items, N, filter_already_liked_items=True).
\* native: what the unchecked native code does with a filter index beyond
\* the score table: "fault", or "proceed" without it.
ModelRecommend(model, userid, user_items, N, native) ==
    LET liked == LikedItems(user_items)
        outside == liked \ DOMAIN model.item_factors
    IN IF userid \notin DOMAIN model.user_factors
       THEN [NoResult EXCEPT !.error = "IndexError", !.where = "user_factors"]
       ELSE IF outside # {} /\ native = "fault"
       THEN [NoResult EXCEPT !.error = "Fault", !.where = "topk"]
       ELSE LET best == TopK(FilteredScores(model, userid, liked), N)
            IN [NoResult EXCEPT !.ids = [j \in 1..Len(best) |-> best[j][2]],
                                !.scores = [j \in 1..Len(best) |-> best[j][1]]]

\* for i, s in zip(ids, scores): results.append((reverse_video_map[i], float(s)))
RECURSIVE MapBack(_, _, _)
MapBack(reverse_video_map, ids, scores) ==
    IF ids = <<>> THEN <<>>
    ELSE <<<<reverse_video_map[Head(ids)], Head(scores)>>>>
            \o MapBack(reverse_video_map, Tail(ids), Tail(scores))

\* A slip in the lookup: user_map.get(user_id, 0) sends an absent key to
\* index 0 instead of raising.
RecommendDefaultIndex(srv, user_id, N, native) ==
    LET user_idx == IF user_id \in DOMAIN srv.user_map THEN srv.user_map[user_id] ELSE 0
        got == ModelRecommend(srv.model, user_idx, srv.user_item_matrix[user_idx], N, native)
    IN IF got.error # "none" THEN got
       ELSE IF \E j \in 1..Len(got.ids) : got.ids[j] \notin DOMAIN srv.reverse_video_map
       THEN [got EXCEPT !.error = "KeyError", !.where = "reverse_video_map"]
       ELSE [got EXCEPT !.results = MapBack(srv.reverse_video_map, got.ids, got.scores)]

\* recommend(user_id, N) of recommend.py.
Recommend(srv, user_id, N, native) ==
    IF user_id \notin DOMAIN srv.user_map
    THEN [NoResult EXCEPT !.error = "KeyError", !.where = "user_map"]
    ELSE LET user_idx == srv.user_map[user_id]
             got == ModelRecommend(srv.model, user_idx,
                                   srv.user_item_matrix[user_idx], N, native)
         IN IF got.error # "none" THEN got
            ELSE IF \E j \in 1..Len(got.ids) : got.ids[j] \notin DOMAIN srv.reverse_video_map
            THEN [got EXCEPT !.error = "KeyError", !.where = "reverse_video_map"]
            ELSE [got EXCEPT !.results = MapBack(srv.reverse_video_map, got.ids, got.scores)]

\* ---------------------------------------------------------- serving/app.py
\* recommend(user_id, k) of app.py: the try block and its except KeyError.
AppRecommend(srv, user_id, k, native) ==
    LET core == Recommend(srv, user_id, k, native)
        base == [user_id |-> user_id, k |-> k, core |-> core,
                 status |-> 200, detail |-> "ok", recommendations |-> <<>>]
    IN IF core.error = "KeyError"
       THEN [base EXCEPT !.status = 404, !.detail = "User not found"]
       ELSE IF core.error # "none"
       THEN [base EXCEPT !.status = 500, !.detail = "Internal Server Error"]
       ELSE IF core.results = <<>>
       THEN [base EXCEPT !.status = 404, !.detail = "No recommendations available for user"]
       ELSE [base EXCEPT !.recommendations = core.results]

NoResponse ==
    [user_id |-> UnseenUser, k |-> 0, core |-> NoResult,
     status |-> 0, detail |-> "none", recommendations |-> <<>>]

NoArtifacts ==
    [model |-> NoModel, user_map |-> <<>>, video_map |-> <<>>,
     reverse_video_map |-> <<>>, user_item_matrix |-> <<>>]

VARIABLES interactions, ratings_csv, mappings_pkl, features_done,
          train_pc, train_model, models_als_model_pkl, last_run, prev_run,
          vrmodels_als_model_pkl, srv_pc, srv, response

featureVars == <<interactions, ratings_csv, mappings_pkl, features_done>>

trainVars == <<train_pc, train_model, models_als_model_pkl, last_run, prev_run>>

serveVars == <<srv_pc, srv, response>>

vars == <<featureVars, trainVars, vrmodels_als_model_pkl, serveVars>>

NoMappings == [user_map |-> <<>>, video_map |-> <<>>]

Init ==
    /\ interactions \in InteractionLogs
    /\ ratings_csv = <<>>
    /\ mappings_pkl = NoMappings
    /\ features_done = FALSE
    /\ train_pc = "idle"
    /\ train_model = NoModel
    /\ models_als_model_pkl = NoFile
    /\ last_run = NoModel
    /\ prev_run = NoModel
    /\ vrmodels_als_model_pkl = NoFile
    /\ srv_pc = "down"
    /\ srv = NoArtifacts
    /\ response = NoResponse

\* One run of build_features.py.
BuildFeatures ==
    /\ ~features_done
    /\ ratings_csv' = FeatureRatings(interactions)
    /\ mappings_pkl' = FeatureMappings(interactions)
    /\ features_done' = TRUE
    /\ UNCHANGED <<interactions, trainVars, vrmodels_als_model_pkl, serveVars>>

\* train_model.py up to model.fit: read ratings.csv, build the matrix, fit.
TrainModel ==
    /\ features_done
    /\ train_pc = "idle"
    /\ \E seed \in RandomStates : train_model' = TrainFit(ratings_csv, seed)
    /\ train_pc' = "fitted"
    /\ UNCHANGED <<featureVars, models_als_model_pkl, last_run, prev_run, vrmodels_als_model_pkl, serveVars>>

\* open("models/als_model.pkl", "wb"): the file is created or truncated.
SaveOpen ==
    /\ train_pc = "fitted"
    /\ models_als_model_pkl' = [exists |-> TRUE, bytes |-> <<>>]
    /\ train_pc' = "dumping"
    /\ UNCHANGED <<featureVars, train_model, last_run, prev_run, vrmodels_als_model_pkl, serveVars>>

\* pickle.dump(model, f): the next piece of the stream reaches the file.
SaveWrite ==
    /\ train_pc = "dumping"
    /\ Len(models_als_model_pkl.bytes) < Len(Pickled(train_model))
    /\ models_als_model_pkl' =
          [exists |-> TRUE,
           bytes |-> Append(models_als_model_pkl.bytes,
                            Pickled(train_model)[Len(models_als_model_pkl.bytes) + 1])]
    /\ UNCHANGED <<featureVars, train_pc, train_model, last_run, prev_run, vrmodels_als_model_pkl, serveVars>>

\* The with block closes the file and the script ends; last_run and
\* prev_run keep the models of the two latest completed runs.
SaveClose ==
    /\ train_pc = "dumping"
    /\ Len(models_als_model_pkl.bytes) = Len(Pickled(train_model))
    /\ last_run' = train_model
    /\ prev_run' = last_run
    /\ train_pc' = "idle"
    /\ UNCHANGED <<featureVars, train_model, models_als_model_pkl, vrmodels_als_model_pkl, serveVars>>

\* The trainer writes models/als_model.pkl and the serving module reads
\* vrmodels/als_model.pkl; no script of the repository moves the file, so
\* the reader's file is whatever an operator copied there, byte for byte.
InstallModel ==
    /\ models_als_model_pkl.exists
    /\ vrmodels_als_model_pkl' = models_als_model_pkl
    /\ UNCHANGED <<featureVars, trainVars, serveVars>>

\* Import of recommend.py: pickle.load of the model and the mappings,
\* read_csv of the ratings, the matrix.  A file that is not a whole pickle
\* makes pickle.load raise and the process never serves.
LoadArtifacts ==
    /\ srv_pc = "down"
    /\ features_done
    /\ vrmodels_als_model_pkl.exists
    /\ IF Complete(vrmodels_als_model_pkl)
       THEN /\ srv' = LoadedArtifacts(vrmodels_als_model_pkl, mappings_pkl, ratings_csv)
            /\ srv_pc' = "up"
       ELSE /\ srv' = srv
            /\ srv_pc' = "failed"
    /\ UNCHANGED <<featureVars, trainVars, vrmodels_als_model_pkl, response>>

RequestUsers == UserKeys \cup {UnseenUser}

\* The outcomes of the native code for one call: two when the user's row
\* names a column beyond the model's item factors, one otherwise.
NativeOutcomes(artifacts, user_id, k) ==
    IF /\ user_id \in DOMAIN artifacts.user_map
       /\ LikedItems(artifacts.user_item_matrix[artifacts.user_map[user_id]])
             \ DOMAIN artifacts.model.item_factors # {}
    THEN {"fault", "proceed"}
    ELSE {"proceed"}

RequestSizes == 0..MaxN \cup {DefaultK}

\* POST /invocations: one request handled by app.py.
Invocations ==
    /\ srv_pc = "up"
    /\ \E user_id \in RequestUsers, k \in RequestSizes :
          \E native \in NativeOutcomes(srv, user_id, k) :
             response' = AppRecommend(srv, user_id, k, native)
    /\ UNCHANGED <<featureVars, trainVars, vrmodels_als_model_pkl, srv_pc, srv>>

Next ==
    \/ BuildFeatures
    \/ TrainModel
    \/ SaveOpen
    \/ SaveWrite
    \/ SaveClose
    \/ InstallModel
    \/ LoadArtifacts
    \/ Invocations

Spec == Init /\ [][Next]_vars

\* The feature step alone, on the longer logs.
FeatureInit ==
    /\ interactions \in FeatureLogs
    /\ ratings_csv = <<>>
    /\ mappings_pkl = NoMappings
    /\ features_done = FALSE
    /\ train_pc = "idle"
    /\ train_model = NoModel
    /\ models_als_model_pkl = NoFile
    /\ last_run = NoModel
    /\ prev_run = NoModel
    /\ vrmodels_als_model_pkl = NoFile
    /\ srv_pc = "down"
    /\ srv = NoArtifacts
    /\ response = NoResponse

FeatureNext == BuildFeatures

FeatureSpec == FeatureInit /\ [][FeatureNext]_vars

\* The serving process alone: it starts with the artifacts of one feature
\* run and one completed training run on disk, the model file in place.
ServeInit ==
    /\ interactions \in InteractionLogs
    /\ ratings_csv = FeatureRatings(interactions)
    /\ mappings_pkl = FeatureMappings(interactions)
    /\ features_done = TRUE
    /\ train_pc = "idle"
    /\ \E seed \in RandomStates : train_model = TrainFit(ratings_csv, seed)
    /\ models_als_model_pkl = [exists |-> TRUE, bytes |-> Pickled(train_model)]
    /\ last_run = train_model
    /\ prev_run = NoModel
    /\ vrmodels_als_model_pkl = models_als_model_pkl
    /\ srv_pc = "down"
    /\ srv = NoArtifacts
    /\ response = NoResponse

ServeNext ==
    \/ LoadArtifacts
    \/ Invocations

ServeSpec == ServeInit /\ [][ServeNext]_vars

\* ------------------------------------------------------------- the claims
\* A request has been answered.
Answered == response.detail # "none"

\* The core recommend returned a list to its caller.
CoreReturned == Answered /\ response.core.error = "none"

KnownUser(user_id) == user_id \in DOMAIN srv.user_map

\* The user's row of the interaction matrix has an entry > 0 for the video.
Interacted(user_id, video_id) ==
    \E i \in 1..Len(ratings_csv) :
        /\ ratings_csv[i].userId = user_id
        /\ ratings_csv[i].videoId = video_id
        /\ ratings_csv[i].rating > 0

InteractedCount(user_id) ==
    Cardinality({v \in DOMAIN srv.video_map : Interacted(user_id, v)})

NumUsers == Cardinality(DOMAIN mappings_pkl.user_map)

NumVideos == Cardinality(DOMAIN mappings_pkl.video_map)

\* C1: no list recommend returns holds an item the requesting user already
\* interacted with, whatever N is.
C1_Filtering ==
    CoreReturned =>
        \A j \in 1..Len(response.core.results) :
            ~Interacted(response.user_id, response.core.results[j][1])

\* C2: the list recommend(user_id, K) returns has exactly
\* min(K, num_items - interacted items of the user) entries.
C2_Length ==
    CoreReturned =>
        Len(response.core.results)
            = Min2(response.k, NumVideos - InteractedCount(response.user_id))

\* C3: in every returned list the scores are non-increasing, items of equal
\* score are in ascending item-index order, and the list keeps the order of
\* the ids the scorer returned.
C3_Ordering ==
    CoreReturned =>
        LET results == response.core.results
        IN /\ Len(results) = Len(response.core.ids)
           /\ \A j \in 1..Len(results) :
                 results[j][1] = srv.reverse_video_map[response.core.ids[j]]
           /\ \A a, b \in 1..Len(results) :
                 a < b =>
                    /\ results[a][2] >= results[b][2]
                    /\ results[a][2] = results[b][2] =>
                          srv.video_map[results[a][1]] < srv.video_map[results[b][1]]

\* C4: a request for a key that is absent from user_map ends as the
\* KeyError of the user_map lookup in the core and as the 404 "User not
\* found" response of the handler, never as a fault, a result list or the
\* "No recommendations available" response.
C4_UnknownUser ==
    (Answered /\ ~KnownUser(response.user_id)) =>
        /\ response.core.error = "KeyError"
        /\ response.core.where = "user_map"
        /\ response.core.results = <<>>
        /\ response.status = 404
        /\ response.detail = "User not found"
        /\ response.recommendations = <<>>

\* C4's case: a request for a positive number of items was answered for a
\* key that other logs mention and the loaded user_map does not.
C4_Witness ==
    /\ Answered
    /\ ~KnownUser(response.user_id)
    /\ response.user_id \in UserKeys
    /\ response.k > 0
    /\ NumUsers > 0

\* C5: the handler answers "User not found" only when the requested key is
\* absent from user_map.
C5_NotFoundOnlyForUnknown ==
    (Answered /\ response.detail = "User not found") => ~KnownUser(response.user_id)

\* C6: a request for a key present in user_map ends with a result list
\* (status 200), never with an error outcome.
C6_NoFailureOnValidUser ==
    (Answered /\ KnownUser(response.user_id)) =>
        /\ response.core.error = "none"
        /\ response.status = 200

\* C7: two training runs on the same ratings data and configuration store
\* identical factor matrices.
C7_Determinism ==
    (last_run # NoModel /\ prev_run # NoModel) => last_run = prev_run

\* The position of the first occurrence of a key in a column.
FirstPos(col, k) ==
    CHOOSE i \in 1..Len(col) : col[i] = k /\ \A j \in 1..(i - 1) : col[j] # k

\* A map sends its keys one-to-one onto exactly 0..n-1.
DenseBijection(map) ==
    /\ \A k1, k2 \in DOMAIN map : map[k1] = map[k2] => k1 = k2
    /\ {map[k] : k \in DOMAIN map} = 0..(Cardinality(DOMAIN map) - 1)

\* The keys of the map are exactly those of the column, indexed in the
\* order of their first occurrence in it.
FirstSeenOrder(map, col) ==
    /\ DOMAIN map = Range(col)
    /\ \A k1, k2 \in DOMAIN map :
          FirstPos(col, k1) < FirstPos(col, k2) => map[k1] < map[k2]

RoundTrip(video_map) ==
    \A k \in DOMAIN video_map : ReverseMap(video_map)[video_map[k]] = k

\* C8 as stated: both maps are dense bijections in first-seen order of the
\* input interaction log, and key -> index -> key is the identity.
C8_FirstSeenInLog ==
    features_done =>
        /\ DenseBijection(mappings_pkl.user_map)
        /\ DenseBijection(mappings_pkl.video_map)
        /\ FirstSeenOrder(mappings_pkl.user_map, UserColumn(interactions))
        /\ FirstSeenOrder(mappings_pkl.video_map, VideoColumn(interactions))
        /\ RoundTrip(mappings_pkl.video_map)

\* C8 amended: both maps are dense bijections over the distinct keys of the
\* log, indexed in first-seen order of the aggregated ratings table (whose
\* rows groupby sorts by userId, then videoId), and key -> index -> key is
\* the identity.
C8_MappingBijection ==
    features_done =>
        /\ DenseBijection(mappings_pkl.user_map)
        /\ DenseBijection(mappings_pkl.video_map)
        /\ DOMAIN mappings_pkl.user_map = Range(UserColumn(interactions))
        /\ DOMAIN mappings_pkl.video_map = Range(VideoColumn(interactions))
        /\ FirstSeenOrder(mappings_pkl.user_map, UserColumn(ratings_csv))
        /\ FirstSeenOrder(mappings_pkl.video_map, VideoColumn(ratings_csv))
        /\ \A i \in 1..(Len(ratings_csv) - 1) :
              PairLess(<<ratings_csv[i].userId, ratings_csv[i].videoId>>,
                       <<ratings_csv[i + 1].userId, ratings_csv[i + 1].videoId>>)
        /\ RoundTrip(mappings_pkl.video_map)

\* C8's case: the maps were built from a log with repeated keys, at least
\* two users and two videos, where the video indices follow neither the
\* order of the keys nor the order of the log.
C8_Witness ==
    /\ features_done
    /\ NumUsers >= 2
    /\ Len(interactions) > Len(ratings_csv)
    /\ \E v1, v2 \in DOMAIN mappings_pkl.video_map :
          /\ v1 < v2
          /\ mappings_pkl.video_map[v1] > mappings_pkl.video_map[v2]
          /\ FirstPos(VideoColumn(interactions), v1) < FirstPos(VideoColumn(interactions), v2)

\* C9: the model file at the path the trainer saves to is at every moment
\* a complete store (the previous or the new one), the serving process
\* never meets a partly written file, and it loads from the path the
\* trainer saved to.
C9_AtomicHandOff ==
    /\ models_als_model_pkl.exists => Complete(models_als_model_pkl)
    /\ srv_pc # "failed"
    /\ srv_pc = "up" => LoaderModelPath = TrainerModelPath

\* C10: the fitted model has one user-factor row per user index and one
\* item-factor row per item index, and every item index recommend gets
\* back from the model lies in [0, num_items) and is in reverse_video_map.
C10_FactorShape ==
    /\ train_model # NoModel =>
          /\ DOMAIN train_model.user_factors = 0..(NumUsers - 1)
          /\ DOMAIN train_model.item_factors = 0..(NumVideos - 1)
    /\ Answered =>
          \A j \in 1..Len(response.core.ids) :
              /\ response.core.ids[j] \in 0..(NumVideos - 1)
              /\ response.core.ids[j] \in DOMAIN srv.reverse_video_map
====
